---- MODULE Spec2Model ----
(***************************************************************************)
(* A model of the workspace core of vs/platform/workspace(s):              *)
(*   - the Workspace class with its containment index (workspace.ts),      *)
(*   - the recently-opened store (restoreRecentlyOpened / toStoreData),    *)
(*   - the folder path resolver (getStoredWorkspaceFolder),                *)
(*   - the relocation rewriter (rewriteWorkspaceFileForNewLocation).       *)
(*                                                                         *)
(* Representation.  A string whose characters the code looks at (a path,   *)
(* the text form of a URI) is a sequence of tokens, "/" and "\\" and ":"   *)
(* being tokens of their own; a string the code only passes on (an id, a   *)
(* name, a label, an authority) is a TLA+ string.  A URI is a record       *)
(* [scheme, authority, path] whose path is a token sequence.  A value      *)
(* that may be undefined or null or of another JavaScript type is a        *)
(* tagged record (Undefined, Null, JStr, JNum, JObj, JArr).                *)
(***************************************************************************)
EXTENDS Integers, Sequences, FiniteSets, TLC

VARIABLES
    \* class Workspace: the private fields of the instance under observation
    _id, _folders, _transient, _configuration, _ignorePathCasing, _foldersMap,
    \* the last operation that changed it, and the last getFolder call since
    mutation, lookup,
    \* the recently-opened store: the persisted data handed to
    \* restoreRecentlyOpened, what it returned, the in-memory list handed to
    \* toStoreData, and how far the calls have got
    data, restored, recents, pcRecents,
    \* the platform the process runs on (vs/base/common/platform)
    isWindows,
    \* getStoredWorkspaceFolder: its arguments, what it returned, and whether
    \* it has been called
    resolverArgs, storedFolder, pcResolver,
    \* rewriteWorkspaceFileForNewLocation: its arguments, what it returned or
    \* that it threw, and whether it has been called
    rewriteArgs, rewritten, pcRewrite,
    \* toWorkspaceFolders: its arguments, what it returned or that it threw,
    \* and whether it has been called
    foldersArgs, workspaceFolders, pcFolders

workspaceVars == <<_id, _folders, _transient, _configuration, _ignorePathCasing,
                   _foldersMap, mutation, lookup>>

recentsVars == <<data, restored, recents, pcRecents>>

resolverVars == <<resolverArgs, storedFolder, pcResolver>>

rewriteVars == <<rewriteArgs, rewritten, pcRewrite>>

foldersVars == <<foldersArgs, workspaceFolders, pcFolders>>

vars == <<workspaceVars, recentsVars, isWindows, resolverVars, rewriteVars, foldersVars>>

notWorkspaceVars == <<recentsVars, isWindows, resolverVars, rewriteVars, foldersVars>>
notRecentsVars == <<workspaceVars, isWindows, resolverVars, rewriteVars, foldersVars>>
notResolverVars == <<workspaceVars, recentsVars, isWindows, rewriteVars, foldersVars>>
notRewriteVars == <<workspaceVars, recentsVars, isWindows, resolverVars, foldersVars>>
notFoldersVars == <<workspaceVars, recentsVars, isWindows, resolverVars, rewriteVars>>

-----------------------------------------------------------------------------
(* Bounds of the model *)

\* the longest folder sequence given to a Workspace
MaxFolders == 2

\* the longest list of entries in persisted recently-opened data (current schema)
MaxEntries == 3

\* the longest workspaces3 / files2 list in legacy recently-opened data
MaxLegacy == 2

\* the longest workspaces / files list of an in-memory recently-opened value
MaxRecents == 2

\* the longest folders array of a workspace file that is rewritten
MaxStoredFolders == 2

\* the longest list of stored folders given to toWorkspaceFolders
MaxConfiguredFolders == 3

-----------------------------------------------------------------------------
(* JavaScript values *)

Undefined == [t |-> "undefined"]
Null == [t |-> "null"]
JStr(s) == [t |-> "string", s |-> s]
JNum(n) == [t |-> "number", n |-> n]
JBool(b) == [t |-> "boolean", b |-> b]
JObj(o) == [t |-> "object", o |-> o]
JArr(a) == [t |-> "array", a |-> a]

\* typeof v
TypeOf(v) == IF v.t \in {"null", "array"} THEN "object" ELSE v.t

\* whether v counts as true in a condition
Truthy(v) ==
    CASE v.t \in {"undefined", "null"} -> FALSE
      [] v.t = "string" -> v.s # <<>>
      [] v.t = "number" -> v.n # 0
      [] v.t = "boolean" -> v.b
      [] OTHER -> TRUE

\* v.k raises a TypeError on undefined and null
PropThrows(v) == v.t \in {"undefined", "null"}

\* v.k: the property, undefined when v has none of that name
Prop(v, k) == IF v.t = "object" /\ k \in DOMAIN v.o THEN v.o[k] ELSE Undefined

\* Array.isArray(v)
IsArray(v) == v.t = "array"

\* the lower-case form of a token or opaque string of the model's alphabet
Lower(s) ==
    CASE s = "A" -> "a"
      [] s = "B" -> "b"
      [] s = "HOST" -> "host"
      [] s = "C:" -> "c:"
      [] OTHER -> s

RECURSIVE LowerAll(_)
LowerAll(s) == IF s = <<>> THEN <<>> ELSE <<Lower(Head(s))>> \o LowerAll(Tail(s))

NotSlash(t) == t # "/"

\* the segments of a "/"-separated path
PathSegments(p) == SelectSeq(p, NotSlash)

IsPrefixSeq(s, t) == Len(s) <= Len(t) /\ SubSeq(t, 1, Len(s)) = s

URI(scheme, authority, path) == [scheme |-> scheme, authority |-> authority, path |-> path]

-----------------------------------------------------------------------------
(* URI.parse and URI.toString on token sequences.  The text of a URI is     *)
(* scheme ":" "//" authority path, the path being "/" and segment tokens.   *)

\* the schemes whose characters URI accepts; any other scheme token stands
\* for a scheme with an illegal character
LegalSchemes == {"file", "vscode-remote", "http"}

NoUri == URI("", "", <<>>)

\* _referenceResolution: file and http paths are made absolute
ReferenceResolution(scheme, path) ==
    IF scheme \in {"file", "http"} /\ (path = <<>> \/ Head(path) # "/")
    THEN <<"/">> \o path
    ELSE path

\* URI.parse(value): [threw, uri].  It throws on a scheme with illegal
\* characters, on an authority followed by a path that does not start with a
\* slash, and on a path that starts with two slashes without an authority.
URI_parse(value) ==
    LET hasScheme == Len(value) >= 2 /\ value[2] = ":" /\ value[1] \notin {"/", "//", ":"}
        scheme == IF hasScheme THEN value[1] ELSE ""
        afterScheme == IF hasScheme THEN SubSeq(value, 3, Len(value)) ELSE value
        hasSlashes == afterScheme # <<>> /\ Head(afterScheme) = "//"
        hasAuthority == hasSlashes /\ Len(afterScheme) >= 2 /\ afterScheme[2] # "/"
        authority == IF hasAuthority THEN afterScheme[2] ELSE ""
        rawPath == IF hasAuthority THEN SubSeq(afterScheme, 3, Len(afterScheme))
                   ELSE IF hasSlashes THEN Tail(afterScheme)
                   ELSE afterScheme
        fixedScheme == IF scheme = "" THEN "file" ELSE scheme
        path == ReferenceResolution(fixedScheme, rawPath)
        illegal ==
            \/ scheme # "" /\ scheme \notin LegalSchemes
            \/ authority # "" /\ path # <<>> /\ Head(path) # "/"
            \/ authority = "" /\ Len(path) >= 2 /\ path[1] = "/" /\ path[2] = "/"
    IN IF illegal THEN [threw |-> TRUE, uri |-> NoUri]
       ELSE [threw |-> FALSE, uri |-> URI(fixedScheme, authority, path)]

\* uri.toString(): scheme ":" then "//" authority when there is one or the
\* scheme is file, then the path
URI_toString(uri) ==
    (IF uri.scheme # "" THEN <<uri.scheme, ":">> ELSE <<>>)
    \o (IF uri.authority # "" \/ uri.scheme = "file" THEN <<"//">> ELSE <<>>)
    \o (IF uri.authority # "" THEN <<uri.authority>> ELSE <<>>)
    \o uri.path

-----------------------------------------------------------------------------
(* Paths and the extUri operations (vs/base/common/path, extpath, labels,    *)
(* resources).  A path is a token sequence: the separators "/" and "\\",     *)
(* the names ".", ".." and segment names, and a drive token ("c:", "C:")     *)
(* that can only come first.  Backslashes and drives occur on Windows only.  *)

DriveTokens == {"c:", "C:"}

Upper(s) == IF s = "c:" THEN "C:" ELSE s

IsSeparator(t) == t \in {"/", "\\"}

NotSeparator(t) == ~IsSeparator(t)

\* extpath.toSlashes
ToSlash(t) == IF t = "\\" THEN "/" ELSE t
toSlashes(path) == [i \in 1..Len(path) |-> ToSlash(path[i])]

\* path.replace(/\//g, '\\')
ToBackslash(t) == IF t = "/" THEN "\\" ELSE t

\* a plausible slip: the slashes are left as they are
toBackslashes_kept(path) == path

toBackslashes(path) == [i \in 1..Len(path) |-> ToBackslash(path[i])]

\* labels.normalizeDriveLetter: the drive letter in upper case
normalizeDriveLetter(path) ==
    IF path # <<>> /\ Head(path) \in DriveTokens
    THEN <<Upper(Head(path))>> \o Tail(path)
    ELSE path

\* path.isAbsolute of the platform
isAbsolute(path, win) ==
    /\ path # <<>>
    /\ IF win
       THEN \/ IsSeparator(Head(path))
            \/ Head(path) \in DriveTokens /\ Len(path) >= 2 /\ IsSeparator(path[2])
       ELSE Head(path) = "/"

RECURSIVE JoinSegments(_)
JoinSegments(segs) ==
    IF segs = <<>> THEN <<>>
    ELSE IF Len(segs) = 1 THEN segs
    ELSE <<Head(segs), "/">> \o JoinSegments(Tail(segs))

\* the absolute "/"-path of a list of segments
AbsolutePath(segs) == <<"/">> \o JoinSegments(segs)

\* "." and ".." resolved against the segments before them; the first `keep'
\* segments (a drive) are never removed
RECURSIVE NormalizeSegments(_, _, _)
NormalizeSegments(done, rest, keep) ==
    IF rest = <<>> THEN done
    ELSE IF Head(rest) = "." THEN NormalizeSegments(done, Tail(rest), keep)
    ELSE IF Head(rest) = ".."
         THEN NormalizeSegments(IF Len(done) <= keep THEN done
                                ELSE SubSeq(done, 1, Len(done) - 1),
                                Tail(rest), keep)
    ELSE NormalizeSegments(done \o <<Head(rest)>>, Tail(rest), keep)

\* the number of leading segments two paths share
RECURSIVE CommonPrefixLen(_, _)
CommonPrefixLen(a, b) ==
    IF a = <<>> \/ b = <<>> \/ Head(a) # Head(b) THEN 0
    ELSE 1 + CommonPrefixLen(Tail(a), Tail(b))

\* extUri.isEqualAuthority on the authorities of two uris: equal ignoring case
isEqualAuthority(a1, a2) == a1 = a2 \/ Lower(a1) = Lower(a2)

\* resources.isEqualAuthority on two values that may be undefined: identical,
\* or both defined and equal ignoring case
isEqualAuthorityValue(a1, a2) ==
    \/ a1 = a2
    \/ /\ a1 # Undefined /\ a2 # Undefined
       /\ a1.t = "string" /\ a2.t = "string"
       /\ LowerAll(a1.s) = LowerAll(a2.s)

\* the drive of a list of segments in lower case
LowerDrive(segs) ==
    IF segs # <<>> /\ Head(segs) \in DriveTokens
    THEN <<Lower(Head(segs))>> \o Tail(segs)
    ELSE segs

\* extUri.dirname
dirname(uri) ==
    LET segs == PathSegments(uri.path)
    IN IF segs = <<>> THEN uri
       ELSE [uri EXCEPT !.path = AbsolutePath(SubSeq(segs, 1, Len(segs) - 1))]

\* extUri.relativePath(from, to): [defined, value]; undefined when scheme or
\* authority differ, else the relative path with "/" (empty for equal paths);
\* drive letters compare ignoring case
relativePath(from, to) ==
    IF from.scheme # to.scheme \/ ~isEqualAuthority(from.authority, to.authority)
    THEN [defined |-> FALSE, value |-> <<>>]
    ELSE LET f == LowerDrive(PathSegments(from.path))
             t == LowerDrive(PathSegments(to.path))
             c == CommonPrefixLen(f, t)
         IN [defined |-> TRUE,
             value |-> JoinSegments([i \in 1..(Len(f) - c) |-> ".."]
                                    \o SubSeq(t, c + 1, Len(t)))]

\* extUri.resolvePath(base, path): path resolved against base's path; an
\* absolute path replaces it.  For a file uri on Windows both separators
\* separate, and an absolute path without a drive keeps the base's drive.
resolvePath(base, path, win) ==
    LET w == win /\ base.scheme = "file"
        segs == IF w THEN SelectSeq(path, NotSeparator) ELSE PathSegments(path)
        baseSegs == PathSegments(base.path)
        baseDrive == IF w /\ baseSegs # <<>> /\ Head(baseSegs) \in DriveTokens
                     THEN <<Head(baseSegs)>> ELSE <<>>
        hasDrive == w /\ segs # <<>> /\ Head(segs) \in DriveTokens
        start == IF isAbsolute(path, w)
                 THEN (IF hasDrive THEN <<>> ELSE baseDrive)
                 ELSE baseSegs
        keep == IF hasDrive THEN 1 ELSE Len(baseDrive)
    IN [base EXCEPT !.path = AbsolutePath(NormalizeSegments(start, segs, keep))]

\* uri.fsPath: the UNC form for a file uri with authority, a drive path without
\* its leading slash and with a lower-case letter; backslashes on Windows
fsPath(uri, win) ==
    LET segs == PathSegments(uri.path)
        raw == IF uri.authority # "" /\ Len(uri.path) > 1 /\ uri.scheme = "file"
               THEN <<"/", "/", uri.authority>> \o uri.path
               ELSE IF segs # <<>> /\ Head(segs) \in DriveTokens /\ Head(uri.path) = "/"
               THEN <<Lower(Head(segs))>> \o SubSeq(uri.path, 3, Len(uri.path))
               ELSE uri.path
    IN IF win THEN toBackslashes(raw) ELSE raw

\* remoteHosts.getRemoteAuthority(uri)
getRemoteAuthority(uri) ==
    IF uri.scheme = "vscode-remote" THEN JStr(<<uri.authority>>) ELSE Undefined

-----------------------------------------------------------------------------
(* TernarySearchTree.forUris: a map keyed by the URI's iteration key *)

\* the key a URI is stored and looked up under: scheme and authority compare
\* ignoring case, the path segments ignoring case when the policy says so
UriKey(policy, uri) ==
    [scheme |-> Lower(uri.scheme),
     authority |-> Lower(uri.authority),
     segments |-> IF policy = "ignoreCase"
                  THEN LowerAll(PathSegments(uri.path))
                  ELSE PathSegments(uri.path)]

TernarySearchTree_forUris(policy) == [policy |-> policy, entries |-> <<>>]

\* set(key, value): a later value replaces an earlier one of the same key
TernarySearchTree_set(tree, uri, value) ==
    LET k == UriKey(tree.policy, uri)
        KeepOthers(e) == e.key # k
    IN [tree EXCEPT !.entries = SelectSeq(@, KeepOthers) \o <<[key |-> k, value |-> value]>>]

\* findSubstr(key): the value of the longest stored key that is a prefix
TernarySearchTree_findSubstr(tree, uri) ==
    LET k == UriKey(tree.policy, uri)
        Matches == {i \in 1..Len(tree.entries) :
                      /\ tree.entries[i].key.scheme = k.scheme
                      /\ tree.entries[i].key.authority = k.authority
                      /\ IsPrefixSeq(tree.entries[i].key.segments, k.segments)}
    IN IF Matches = {} THEN Undefined
       ELSE LET best == CHOOSE i \in Matches :
                          \A j \in Matches :
                             Len(tree.entries[j].key.segments) <= Len(tree.entries[i].key.segments)
            IN tree.entries[best].value

-----------------------------------------------------------------------------
(* class Workspace *)

RECURSIVE SetAll(_, _)
SetAll(tree, folders) ==
    IF folders = <<>> THEN tree
    ELSE SetAll(TernarySearchTree_set(tree, Head(folders).uri, Head(folders)), Tail(folders))

\* updateFoldersMap(): a fresh tree under the current policy, filled from folders
updateFoldersMap(policy, folders) == SetAll(TernarySearchTree_forUris(policy), folders)

\* a plausible slip: the index is asked for the resource itself, not for its
\* longest stored prefix
getFolder_exact(tree, resource) ==
    IF resource = Null THEN Null
    ELSE LET found == TernarySearchTree_findSubstr(tree, resource)
         IN IF found = Undefined \/ UriKey(tree.policy, found.uri) # UriKey(tree.policy, resource)
            THEN Null ELSE found

\* getFolder(resource)
getFolder(tree, resource) ==
    IF resource = Null THEN Null
    ELSE LET found == TernarySearchTree_findSubstr(tree, resource)
         IN IF found = Undefined THEN Null ELSE found

\* the instance's fields as one record
Self ==
    [_id |-> _id, _folders |-> _folders, _transient |-> _transient,
     _configuration |-> _configuration, _ignorePathCasing |-> _ignorePathCasing,
     _foldersMap |-> _foldersMap]

\* set folders(folders): assigns _folders, then updateFoldersMap()
Workspace_setFolders(self, folders) ==
    LET assigned == [self EXCEPT !._folders = folders]
    IN [assigned EXCEPT
          !._foldersMap = updateFoldersMap(assigned._ignorePathCasing, assigned._folders)]

\* the constructor: parameter properties, the field initializer of _foldersMap,
\* then this.folders = folders
Workspace_new(id, folders, transient, configuration, ignorePathCasing) ==
    Workspace_setFolders(
        [_id |-> id, _folders |-> <<>>, _transient |-> transient,
         _configuration |-> configuration, _ignorePathCasing |-> ignorePathCasing,
         _foldersMap |-> TernarySearchTree_forUris(ignorePathCasing)],
        folders)

\* a plausible slip: the folders are taken over before the case policy, so the
\* index is rebuilt under the policy of the workspace being replaced
Workspace_update_policyLast(self, other) ==
    [Workspace_setFolders(
         [self EXCEPT !._id = other._id,
                      !._configuration = other._configuration,
                      !._transient = other._transient],
         other._folders)
     EXCEPT !._ignorePathCasing = other._ignorePathCasing]

\* update(workspace)
Workspace_update(self, other) ==
    Workspace_setFolders(
        [self EXCEPT !._id = other._id,
                     !._configuration = other._configuration,
                     !._transient = other._transient,
                     !._ignorePathCasing = other._ignorePathCasing],
        other._folders)

\* set configuration(configuration)
Workspace_setConfiguration(self, configuration) ==
    [self EXCEPT !._configuration = configuration]

-----------------------------------------------------------------------------
(* Workspace file utilities: getStoredWorkspaceFolder *)

\* a plausible slip: the authorities are not compared, so a folder of another
\* authority is stored by its path
getStoredWorkspaceFolder_noAuthorityCheck(folderURI, forceAbsolute, folderName, targetConfigFolderURI, useSlash, win) ==
    IF folderURI.scheme # targetConfigFolderURI.scheme
    THEN [name |-> folderName, uri |-> URI_toString(folderURI)]
    ELSE
    LET rel == IF ~forceAbsolute
               THEN relativePath(targetConfigFolderURI, folderURI)
               ELSE [defined |-> FALSE, value |-> <<>>]
    IN  IF rel.defined THEN
            [name |-> folderName,
             path |-> IF Len(rel.value) = 0 THEN <<".">>
                      ELSE IF win /\ folderURI.scheme = "file" /\ ~useSlash
                      THEN toBackslashes(rel.value)
                      ELSE rel.value]
        ELSE IF folderURI.scheme = "file" THEN
            [name |-> folderName,
             path |-> IF win
                      THEN IF useSlash
                           THEN toSlashes(normalizeDriveLetter(fsPath(folderURI, win)))
                           ELSE normalizeDriveLetter(fsPath(folderURI, win))
                      ELSE fsPath(folderURI, win)]
        ELSE [name |-> folderName, path |-> folderURI.path]

\* getStoredWorkspaceFolder(folderURI, forceAbsolute, folderName,
\*                          targetConfigFolderURI, useSlashForPath, extUri)
\* on a platform that is Windows or not: {name, uri} or {name, path}
getStoredWorkspaceFolder(folderURI, forceAbsolute, folderName, targetConfigFolderURI, useSlash, win) ==
    IF folderURI.scheme # targetConfigFolderURI.scheme
    THEN [name |-> folderName, uri |-> URI_toString(folderURI)]
    ELSE
    LET rel == IF ~forceAbsolute
               THEN relativePath(targetConfigFolderURI, folderURI)
               ELSE [defined |-> FALSE, value |-> <<>>]
    IN  IF rel.defined THEN
            [name |-> folderName,
             path |-> IF Len(rel.value) = 0 THEN <<".">>
                      ELSE IF win /\ folderURI.scheme = "file" /\ ~useSlash
                      THEN toBackslashes(rel.value)
                      ELSE rel.value]
        ELSE IF folderURI.scheme = "file" THEN
            [name |-> folderName,
             path |-> IF win
                      THEN IF useSlash
                           THEN toSlashes(normalizeDriveLetter(fsPath(folderURI, win)))
                           ELSE normalizeDriveLetter(fsPath(folderURI, win))
                      ELSE fsPath(folderURI, win)]
        ELSE IF ~isEqualAuthority(folderURI.authority, targetConfigFolderURI.authority)
        THEN [name |-> folderName, uri |-> URI_toString(folderURI)]
        ELSE [name |-> folderName, path |-> folderURI.path]

-----------------------------------------------------------------------------
(* The text of a workspace file and vs/base/common/json, jsonEdit.  A text   *)
(* is either an object, the sequence of its comments and properties in the  *)
(* order written, or a text that parses to another value (the empty text    *)
(* parses to undefined).                                                    *)

Comment(text) == [kind |-> "comment", text |-> text]

Property(key, value) == [kind |-> "property", key |-> key, value |-> value]

ObjectText(items) == [root |-> "object", items |-> items]

ValueText(value) == [root |-> "value", value |-> value]

IsProperty(item) == item.kind = "property"

\* the positions of the properties of that name
PositionsOf(items, key) ==
    { i \in 1..Len(items) : IsProperty(items[i]) /\ items[i].key = key }

Min(S) == CHOOSE x \in S : \A y \in S : x <= y

Max(S) == CHOOSE x \in S : \A y \in S : x >= y

KeysOf(items) == { items[i].key : i \in { j \in 1..Len(items) : IsProperty(items[j]) } }

\* json.parse(text): an object gets each name's last value
json_parse(text) ==
    IF text.root = "object"
    THEN JObj([k \in KeysOf(text.items) |-> text.items[Max(PositionsOf(text.items, k))].value])
    ELSE text.value

\* applyEdits(text, setProperty(text, [key], value)) on an object: the value
\* of the property is replaced where it stands, a new property comes last;
\* nothing else of the text changes
jsonEdit_setProperty(text, key, value) ==
    IF PositionsOf(text.items, key) = {}
    THEN ObjectText(Append(text.items, Property(key, value)))
    ELSE ObjectText([text.items EXCEPT ![Min(PositionsOf(text.items, key))].value = value])

\* applyEdits(text, removeProperty(text, [key])): the property is cut out,
\* no edit when there is none
jsonEdit_removeProperty(text, key) ==
    IF PositionsOf(text.items, key) = {}
    THEN text
    ELSE LET at == Min(PositionsOf(text.items, key))
         IN ObjectText(SubSeq(text.items, 1, at - 1)
                       \o SubSeq(text.items, at + 1, Len(text.items)))

\* JSON.stringify of a stored folder: a property that is undefined is left out
StoredFolderToJSON(stored) ==
    LET location == IF "uri" \in DOMAIN stored
                    THEN [uri |-> JStr(stored.uri)]
                    ELSE [path |-> JStr(stored.path)]
    IN JObj(IF stored.name = Undefined THEN location
            ELSE location @@ [name |-> stored.name])

-----------------------------------------------------------------------------
(* Workspace file utilities: rewriteWorkspaceFileForNewLocation *)

isRawFileWorkspaceFolder(obj) ==
    /\ ~PropThrows(obj)
    /\ TypeOf(Prop(obj, "path")) = "string"
    /\ (~Truthy(Prop(obj, "name")) \/ TypeOf(Prop(obj, "name")) = "string")

isRawUriWorkspaceFolder(obj) ==
    /\ ~PropThrows(obj)
    /\ TypeOf(Prop(obj, "uri")) = "string"
    /\ (~Truthy(Prop(obj, "name")) \/ TypeOf(Prop(obj, "name")) = "string")

isStoredWorkspaceFolder(obj) == isRawFileWorkspaceFolder(obj) \/ isRawUriWorkspaceFolder(obj)

NoStoredWorkspace == [threw |-> TRUE, folders |-> <<>>, remoteAuthority |-> Undefined]

\* a plausible slip: an object without a folders array counts as a workspace
\* without folders
doParseStoredWorkspace_lenient(path, contents) ==
    LET storedWorkspace == json_parse(contents)
    IN IF Truthy(storedWorkspace) /\ IsArray(Prop(storedWorkspace, "folders"))
       THEN [threw |-> FALSE,
             folders |-> SelectSeq(Prop(storedWorkspace, "folders").a, isStoredWorkspaceFolder),
             remoteAuthority |-> Prop(storedWorkspace, "remoteAuthority")]
       ELSE IF storedWorkspace.t = "object"
       THEN [threw |-> FALSE, folders |-> <<>>,
             remoteAuthority |-> Prop(storedWorkspace, "remoteAuthority")]
       ELSE NoStoredWorkspace

\* doParseStoredWorkspace(path, contents): [threw, folders, remoteAuthority],
\* the folders being those that are stored workspace folders
doParseStoredWorkspace(path, contents) ==
    LET storedWorkspace == json_parse(contents)
    IN IF Truthy(storedWorkspace) /\ IsArray(Prop(storedWorkspace, "folders"))
       THEN [threw |-> FALSE,
             folders |-> SelectSeq(Prop(storedWorkspace, "folders").a, isStoredWorkspaceFolder),
             remoteAuthority |-> Prop(storedWorkspace, "remoteAuthority")]
       ELSE NoStoredWorkspace

\* useSlashForPath(storedFolders) on a platform that is Windows or not
useSlashForPath(storedFolders, win) ==
    IF win
    THEN \E i \in 1..Len(storedFolders) :
            /\ isRawFileWorkspaceFolder(storedFolders[i])
            /\ \E j \in 1..Len(Prop(storedFolders[i], "path").s) :
                  Prop(storedFolders[i], "path").s[j] = "/"
    ELSE TRUE

\* the location of a stored folder: [threw, uri], URI.parse may throw
folderURI(folder, sourceConfigFolder, win) ==
    IF isRawFileWorkspaceFolder(folder)
    THEN [threw |-> FALSE, uri |-> resolvePath(sourceConfigFolder, Prop(folder, "path").s, win)]
    ELSE URI_parse(Prop(folder, "uri").s)

\* a plausible slip: every folder is made relative, as for an untitled workspace
absolute_never(folder, isFromUntitledWorkspace, win) == FALSE

\* whether the folder is to be kept absolute
absolute(folder, isFromUntitledWorkspace, win) ==
    IF isFromUntitledWorkspace
    THEN FALSE
    ELSE ~isRawFileWorkspaceFolder(folder) \/ isAbsolute(Prop(folder, "path").s, win)

\* the loop over storedWorkspace.folders: [threw, folders]
rewrittenFolders(folders, configPathURI, isFromUntitledWorkspace, targetConfigPathURI, win) ==
    LET sourceConfigFolder == dirname(configPathURI)
        targetConfigFolder == dirname(targetConfigPathURI)
        slashForPath == useSlashForPath(folders, win)
    IN IF \E i \in 1..Len(folders) : folderURI(folders[i], sourceConfigFolder, win).threw
       THEN [threw |-> TRUE, folders |-> <<>>]
       ELSE [threw |-> FALSE,
             folders |->
               [i \in 1..Len(folders) |->
                  getStoredWorkspaceFolder(
                     folderURI(folders[i], sourceConfigFolder, win).uri,
                     absolute(folders[i], isFromUntitledWorkspace, win),
                     Prop(folders[i], "name"),
                     targetConfigFolder, slashForPath, win)]]

NoContent == [root |-> "none"]

RewriteThrew == [threw |-> TRUE, content |-> NoContent]

FoldersToJSON(folders) == JArr([i \in 1..Len(folders) |-> StoredFolderToJSON(folders[i])])

\* a plausible slip: the new text is written from the parsed workspace, which
\* keeps the folders and the remote authority only
rewriteWorkspaceFileForNewLocation_writesAnew(rawWorkspaceContents, configPathURI, isFromUntitledWorkspace, targetConfigPathURI, win) ==
    LET storedWorkspace == doParseStoredWorkspace(configPathURI, rawWorkspaceContents)
        rewritten_ == rewrittenFolders(storedWorkspace.folders, configPathURI,
                                       isFromUntitledWorkspace, targetConfigPathURI, win)
        newContent == ObjectText(<<Property("folders", FoldersToJSON(rewritten_.folders))>>
                        \o IF storedWorkspace.remoteAuthority = Undefined THEN <<>>
                           ELSE <<Property("remoteAuthority", storedWorkspace.remoteAuthority)>>)
    IN IF storedWorkspace.threw \/ rewritten_.threw THEN RewriteThrew
       ELSE [threw |-> FALSE,
             content |->
               IF isEqualAuthorityValue(storedWorkspace.remoteAuthority,
                                        getRemoteAuthority(targetConfigPathURI))
               THEN jsonEdit_removeProperty(newContent, "remoteAuthority")
               ELSE newContent]

\* a plausible slip: the stored remote authority is compared with that of the
\* old location
rewriteWorkspaceFileForNewLocation_oldAuthority(rawWorkspaceContents, configPathURI, isFromUntitledWorkspace, targetConfigPathURI, win) ==
    LET storedWorkspace == doParseStoredWorkspace(configPathURI, rawWorkspaceContents)
        rewritten_ == rewrittenFolders(storedWorkspace.folders, configPathURI,
                                       isFromUntitledWorkspace, targetConfigPathURI, win)
        newContent == jsonEdit_setProperty(rawWorkspaceContents, "folders",
                                           FoldersToJSON(rewritten_.folders))
    IN IF storedWorkspace.threw \/ rewritten_.threw THEN RewriteThrew
       ELSE [threw |-> FALSE,
             content |->
               IF isEqualAuthorityValue(storedWorkspace.remoteAuthority,
                                        getRemoteAuthority(configPathURI))
               THEN jsonEdit_removeProperty(newContent, "remoteAuthority")
               ELSE newContent]

\* rewriteWorkspaceFileForNewLocation(rawWorkspaceContents, configPathURI,
\*    isFromUntitledWorkspace, targetConfigPathURI, extUri): [threw, content]
rewriteWorkspaceFileForNewLocation(rawWorkspaceContents, configPathURI, isFromUntitledWorkspace, targetConfigPathURI, win) ==
    LET storedWorkspace == doParseStoredWorkspace(configPathURI, rawWorkspaceContents)
        rewritten_ == rewrittenFolders(storedWorkspace.folders, configPathURI,
                                       isFromUntitledWorkspace, targetConfigPathURI, win)
        newContent == jsonEdit_setProperty(rawWorkspaceContents, "folders",
                                           FoldersToJSON(rewritten_.folders))
    IN IF storedWorkspace.threw \/ rewritten_.threw THEN RewriteThrew
       ELSE [threw |-> FALSE,
             content |->
               IF isEqualAuthorityValue(storedWorkspace.remoteAuthority,
                                        getRemoteAuthority(targetConfigPathURI))
               THEN jsonEdit_removeProperty(newContent, "remoteAuthority")
               ELSE newContent]

-----------------------------------------------------------------------------
(* Workspace file utilities: toWorkspaceFolders *)

\* basename of a path: its last segment
Basename(path) ==
    LET segs == PathSegments(path)
    IN IF segs = <<>> THEN "" ELSE segs[Len(segs)]

\* the path of a uri with its drive letter in lower case
LowerDriveOfPath(path) ==
    IF Len(path) >= 2 /\ path[1] = "/" /\ path[2] \in DriveTokens
    THEN [path EXCEPT ![2] = Lower(@)]
    ELSE path

\* extUri.getComparisonKey(uri): the text of the uri, its path in lower case
\* when the policy ignores case; the text has the authority and the drive
\* letter in lower case
getComparisonKey(policy, uri) ==
    URI_toString(URI(uri.scheme, Lower(uri.authority),
                     IF policy = "ignoreCase" THEN LowerAll(uri.path)
                     ELSE LowerDriveOfPath(uri.path)))

\* extUri.basenameOrAuthority(uri)
basenameOrAuthority(uri) ==
    IF Basename(uri.path) # "" THEN Basename(uri.path) ELSE uri.authority

\* a plausible slip: URI.parse is called outside a try block
parseConfiguredUri_uncaught(value) ==
    LET parsed == URI_parse(value)
    IN IF parsed.threw
       THEN [threw |-> TRUE, uri |-> Undefined]
       ELSE [threw |-> FALSE,
             uri |-> IF parsed.uri.path = <<>> \/ Head(parsed.uri.path) # "/"
                     THEN [parsed.uri EXCEPT !.path = <<"/">> \o @]
                     ELSE parsed.uri]

\* the try block: URI.parse(configuredFolder.uri) with its path made
\* absolute; the catch leaves uri undefined.  [threw, uri], threw being an
\* exception that leaves the block
parseConfiguredUri(value) ==
    LET parsed == URI_parse(value)
    IN IF parsed.threw
       THEN [threw |-> FALSE, uri |-> Undefined]
       ELSE [threw |-> FALSE,
             uri |-> IF parsed.uri.path = <<>> \/ Head(parsed.uri.path) # "/"
                     THEN [parsed.uri EXCEPT !.path = <<"/">> \o @]
                     ELSE parsed.uri]

\* the uri of a configured folder: [threw, uri], uri undefined for an empty
\* path, a uri that does not parse, and a value that is no stored folder
configuredUri(configuredFolder, relativeTo, win) ==
    IF isRawFileWorkspaceFolder(configuredFolder)
    THEN [threw |-> FALSE,
          uri |-> IF Truthy(Prop(configuredFolder, "path"))
                  THEN resolvePath(relativeTo, Prop(configuredFolder, "path").s, win)
                  ELSE Undefined]
    ELSE IF isRawUriWorkspaceFolder(configuredFolder)
    THEN parseConfiguredUri(Prop(configuredFolder, "uri").s)
    ELSE [threw |-> FALSE, uri |-> Undefined]

\* new WorkspaceFolder({uri, name, index}, raw)
WorkspaceFolder_new(uri, name, index, raw) ==
    [uri |-> uri, name |-> name, index |-> index, raw |-> raw]

\* configuredFolder.name || extUri.basenameOrAuthority(uri)
folderNameOf(configuredFolder, uri) ==
    IF Truthy(Prop(configuredFolder, "name"))
    THEN Prop(configuredFolder, "name").s
    ELSE <<basenameOrAuthority(uri)>>

\* a plausible slip: a key is never added to seen
RECURSIVE toWorkspaceFolders_loop_neverSeen(_, _, _, _, _, _)
toWorkspaceFolders_loop_neverSeen(rest, relativeTo, policy, win, result, seen) ==
    IF rest = <<>> THEN [threw |-> FALSE, folders |-> result]
    ELSE LET configuredFolder == Head(rest)
             found == configuredUri(configuredFolder, relativeTo, win)
             comparisonKey == getComparisonKey(policy, found.uri)
         IN IF found.threw THEN [threw |-> TRUE, folders |-> <<>>]
            ELSE IF found.uri = Undefined \/ comparisonKey \in seen
            THEN toWorkspaceFolders_loop_neverSeen(Tail(rest), relativeTo, policy, win,
                                                   result, seen)
            ELSE toWorkspaceFolders_loop_neverSeen(
                    Tail(rest), relativeTo, policy, win,
                    Append(result,
                           WorkspaceFolder_new(found.uri,
                                               folderNameOf(configuredFolder, found.uri),
                                               Len(result), configuredFolder)),
                    seen)

\* the loop over configuredFolders with result and seen as they stand:
\* [threw, folders]
RECURSIVE toWorkspaceFolders_loop(_, _, _, _, _, _)
toWorkspaceFolders_loop(rest, relativeTo, policy, win, result, seen) ==
    IF rest = <<>> THEN [threw |-> FALSE, folders |-> result]
    ELSE LET configuredFolder == Head(rest)
             found == configuredUri(configuredFolder, relativeTo, win)
             comparisonKey == getComparisonKey(policy, found.uri)
         IN IF found.threw THEN [threw |-> TRUE, folders |-> <<>>]
            ELSE IF found.uri = Undefined \/ comparisonKey \in seen
            THEN toWorkspaceFolders_loop(Tail(rest), relativeTo, policy, win, result, seen)
            ELSE toWorkspaceFolders_loop(
                    Tail(rest), relativeTo, policy, win,
                    Append(result,
                           WorkspaceFolder_new(found.uri,
                                               folderNameOf(configuredFolder, found.uri),
                                               Len(result), configuredFolder)),
                    seen \cup {comparisonKey})

\* toWorkspaceFolders(configuredFolders, workspaceConfigFile, extUri) under a
\* case policy, on a platform that is Windows or not
toWorkspaceFolders(configuredFolders, workspaceConfigFile, policy, win) ==
    toWorkspaceFolders_loop(configuredFolders, dirname(workspaceConfigFile), policy, win,
                            <<>>, {})

-----------------------------------------------------------------------------
(* Workspace storage: restoreRecentlyOpened and toStoreData *)

\* isRecentFolder(curr): curr.hasOwnProperty('folderUri')
isRecentFolder(curr) == "folderUri" \in DOMAIN curr

isSerializedRecentWorkspace(d) ==
    /\ Truthy(Prop(d, "workspace"))
    /\ TypeOf(Prop(d, "workspace")) = "object"
    /\ TypeOf(Prop(Prop(d, "workspace"), "id")) = "string"
    /\ TypeOf(Prop(Prop(d, "workspace"), "configPath")) = "string"

isSerializedRecentFolder(d) == TypeOf(Prop(d, "folderUri")) = "string"

isSerializedRecentFile(d) == TypeOf(Prop(d, "fileUri")) = "string"

\* what one call of a restoreGracefully callback does: it throws, or pushes at
\* most one entry to result.workspaces or to result.files
Thrown == [threw |-> TRUE, workspaces |-> <<>>, files |-> <<>>]
Pushed(workspaces, files) == [threw |-> FALSE, workspaces |-> workspaces, files |-> files]

\* a plausible slip: folderUri is looked at before workspace
restoreEntry_folderFirst(entry) ==
    IF PropThrows(entry) THEN Thrown
    ELSE
    LET label == Prop(entry, "label")
        remoteAuthority == Prop(entry, "remoteAuthority")
    IN  IF isSerializedRecentFolder(entry) THEN
            LET u == URI_parse(Prop(entry, "folderUri").s)
            IN IF u.threw THEN Thrown
               ELSE Pushed(<<[label |-> label, remoteAuthority |-> remoteAuthority,
                              folderUri |-> u.uri]>>, <<>>)
        ELSE IF isSerializedRecentWorkspace(entry) THEN
            LET u == URI_parse(Prop(Prop(entry, "workspace"), "configPath").s)
            IN IF u.threw THEN Thrown
               ELSE Pushed(<<[label |-> label, remoteAuthority |-> remoteAuthority,
                              workspace |-> [id |-> Prop(Prop(entry, "workspace"), "id").s,
                                             configPath |-> u.uri]]>>, <<>>)
        ELSE IF isSerializedRecentFile(entry) THEN
            LET u == URI_parse(Prop(entry, "fileUri").s)
            IN IF u.threw THEN Thrown
               ELSE Pushed(<<>>, <<[label |-> label, remoteAuthority |-> remoteAuthority,
                                    fileUri |-> u.uri]>>)
        ELSE Pushed(<<>>, <<>>)

\* the callback for an entry of the current schema
restoreEntry(entry) ==
    IF PropThrows(entry) THEN Thrown
    ELSE
    LET label == Prop(entry, "label")
        remoteAuthority == Prop(entry, "remoteAuthority")
    IN  IF isSerializedRecentWorkspace(entry) THEN
            LET u == URI_parse(Prop(Prop(entry, "workspace"), "configPath").s)
            IN IF u.threw THEN Thrown
               ELSE Pushed(<<[label |-> label, remoteAuthority |-> remoteAuthority,
                              workspace |-> [id |-> Prop(Prop(entry, "workspace"), "id").s,
                                             configPath |-> u.uri]]>>, <<>>)
        ELSE IF isSerializedRecentFolder(entry) THEN
            LET u == URI_parse(Prop(entry, "folderUri").s)
            IN IF u.threw THEN Thrown
               ELSE Pushed(<<[label |-> label, remoteAuthority |-> remoteAuthority,
                              folderUri |-> u.uri]>>, <<>>)
        ELSE IF isSerializedRecentFile(entry) THEN
            LET u == URI_parse(Prop(entry, "fileUri").s)
            IN IF u.threw THEN Thrown
               ELSE Pushed(<<>>, <<[label |-> label, remoteAuthority |-> remoteAuthority,
                                    fileUri |-> u.uri]>>)
        ELSE Pushed(<<>>, <<>>)

\* a plausible slip: the label is looked up at the position before
LegacyLabel_shifted(labels, i) ==
    IF IsArray(labels) /\ i - 1 >= 1 /\ i - 1 <= Len(labels.a) /\ Truthy(labels.a[i - 1])
    THEN labels.a[i - 1]
    ELSE Undefined

\* (Array.isArray(labels) && labels[i]) || undefined
LegacyLabel(labels, i) ==
    IF IsArray(labels) /\ i <= Len(labels.a) /\ Truthy(labels.a[i]) THEN labels.a[i]
    ELSE Undefined

\* the callback for element i of workspaces3
restoreWorkspace3(workspace, i, labels) ==
    LET label == LegacyLabel(labels, i)
    IN  IF TypeOf(workspace) = "object" THEN
            IF PropThrows(workspace) THEN Thrown
            ELSE IF TypeOf(Prop(workspace, "id")) = "string"
                    /\ TypeOf(Prop(workspace, "configURIPath")) = "string" THEN
                LET u == URI_parse(Prop(workspace, "configURIPath").s)
                IN IF u.threw THEN Thrown
                   ELSE Pushed(<<[label |-> label,
                                  workspace |-> [id |-> Prop(workspace, "id").s,
                                                 configPath |-> u.uri]]>>, <<>>)
            ELSE Pushed(<<>>, <<>>)
        ELSE IF TypeOf(workspace) = "string" THEN
            LET u == URI_parse(workspace.s)
            IN IF u.threw THEN Thrown
               ELSE Pushed(<<[label |-> label, folderUri |-> u.uri]>>, <<>>)
        ELSE Pushed(<<>>, <<>>)

\* the callback for element i of files2
restoreFile2(file, i, labels) ==
    LET label == LegacyLabel(labels, i)
    IN  IF TypeOf(file) = "string" THEN
            LET u == URI_parse(file.s)
            IN IF u.threw THEN Thrown
               ELSE Pushed(<<>>, <<[label |-> label, fileUri |-> u.uri]>>)
        ELSE Pushed(<<>>, <<>>)

\* the callback restoreGracefully is given, by the list it runs over
Callback(list, entry, i, labels) ==
    CASE list = "entries" -> restoreEntry(entry)
      [] list = "workspaces3" -> restoreWorkspace3(entry, i, labels)
      [] list = "files2" -> restoreFile2(entry, i, labels)

EmptyResult ==
    [threw |-> FALSE, workspaces |-> <<>>, files |-> <<>>,
     workspacesFrom |-> <<>>, filesFrom |-> <<>>, warned |-> <<>>]

\* a plausible slip: the try/catch is around the loop, not inside it, so the
\* first entry that throws ends the loop
RECURSIVE restoreGracefully_catchOutside(_, _, _, _, _)
restoreGracefully_catchOutside(list, entries, labels, i, result) ==
    IF i > Len(entries) THEN result
    ELSE LET r == Callback(list, entries[i], i, labels)
         IN IF r.threw
            THEN [result EXCEPT !.warned = @ \o <<[list |-> list, index |-> i]>>]
            ELSE restoreGracefully_catchOutside(list, entries, labels, i + 1,
                    [result EXCEPT
                       !.workspaces = @ \o r.workspaces,
                       !.files = @ \o r.files,
                       !.workspacesFrom = @ \o [k \in 1..Len(r.workspaces) |->
                                                  [list |-> list, index |-> i]],
                       !.filesFrom = @ \o [k \in 1..Len(r.files) |->
                                             [list |-> list, index |-> i]]])

\* restoreGracefully(entries, func) from entry i on: each call of func is in a
\* try/catch of its own; a throw is logged (warned) and the loop goes on.
\* workspacesFrom and filesFrom record which entry each result came from.
RECURSIVE restoreGracefully(_, _, _, _, _)
restoreGracefully(list, entries, labels, i, result) ==
    IF i > Len(entries) THEN result
    ELSE LET r == Callback(list, entries[i], i, labels)
         IN restoreGracefully(list, entries, labels, i + 1,
               IF r.threw
               THEN [result EXCEPT !.warned = @ \o <<[list |-> list, index |-> i]>>]
               ELSE [result EXCEPT
                       !.workspaces = @ \o r.workspaces,
                       !.files = @ \o r.files,
                       !.workspacesFrom = @ \o [k \in 1..Len(r.workspaces) |->
                                                  [list |-> list, index |-> i]],
                       !.filesFrom = @ \o [k \in 1..Len(r.files) |->
                                             [list |-> list, index |-> i]]])

restoreRecentlyOpened(d) ==
    IF ~Truthy(d) THEN EmptyResult
    ELSE IF IsArray(Prop(d, "entries")) THEN
        restoreGracefully("entries", Prop(d, "entries").a, Undefined, 1, EmptyResult)
    ELSE
        LET afterWorkspaces ==
                IF IsArray(Prop(d, "workspaces3"))
                THEN restoreGracefully("workspaces3", Prop(d, "workspaces3").a,
                                       Prop(d, "workspaceLabels"), 1, EmptyResult)
                ELSE EmptyResult
        IN  IF IsArray(Prop(d, "files2"))
            THEN restoreGracefully("files2", Prop(d, "files2").a,
                                   Prop(d, "fileLabels"), 1, afterWorkspaces)
            ELSE afterWorkspaces

\* a plausible slip: the label is not written
toStoreData_noLabel(x) ==
    JObj([entries |-> JArr(
        [i \in 1..Len(x.workspaces) |->
            IF isRecentFolder(x.workspaces[i])
            THEN JObj([folderUri |-> JStr(URI_toString(x.workspaces[i].folderUri)),
                       label |-> Undefined,
                       remoteAuthority |-> Prop(JObj(x.workspaces[i]), "remoteAuthority")])
            ELSE JObj([workspace |-> JObj(
                          [id |-> JStr(x.workspaces[i].workspace.id),
                           configPath |-> JStr(URI_toString(x.workspaces[i].workspace.configPath))]),
                       label |-> Undefined,
                       remoteAuthority |-> Prop(JObj(x.workspaces[i]), "remoteAuthority")])]
        \o
        [i \in 1..Len(x.files) |->
            JObj([fileUri |-> JStr(URI_toString(x.files[i].fileUri)),
                  label |-> Undefined,
                  remoteAuthority |-> Prop(JObj(x.files[i]), "remoteAuthority")])])])

\* toStoreData(recents); recent.label of an entry without a label is undefined
toStoreData(x) ==
    JObj([entries |-> JArr(
        [i \in 1..Len(x.workspaces) |->
            IF isRecentFolder(x.workspaces[i])
            THEN JObj([folderUri |-> JStr(URI_toString(x.workspaces[i].folderUri)),
                       label |-> Prop(JObj(x.workspaces[i]), "label"),
                       remoteAuthority |-> Prop(JObj(x.workspaces[i]), "remoteAuthority")])
            ELSE JObj([workspace |-> JObj(
                          [id |-> JStr(x.workspaces[i].workspace.id),
                           configPath |-> JStr(URI_toString(x.workspaces[i].workspace.configPath))]),
                       label |-> Prop(JObj(x.workspaces[i]), "label"),
                       remoteAuthority |-> Prop(JObj(x.workspaces[i]), "remoteAuthority")])]
        \o
        [i \in 1..Len(x.files) |->
            JObj([fileUri |-> JStr(URI_toString(x.files[i].fileUri)),
                  label |-> Prop(JObj(x.files[i]), "label"),
                  remoteAuthority |-> Prop(JObj(x.files[i]), "remoteAuthority")])])])

-----------------------------------------------------------------------------
(* The inputs of the Workspace operations *)

FolderUris ==
    { URI("file", "", <<"/", "a">>),
      URI("file", "", <<"/", "A">>),
      URI("file", "", <<"/", "a", "/", "b">>) }

Resources ==
    { URI("file", "", <<"/", "a", "/", "b", "/", "x">>),
      URI("file", "", <<"/", "A", "/", "x">>),
      URI("file", "", <<"/", "a">>),
      URI("file", "", <<"/", "x">>),
      Null }

\* new WorkspaceFolder({uri, name, index}) for each uri, in order
FoldersOf(uris) ==
    [i \in 1..Len(uris) |->
        [uri |-> uris[i], name |-> Basename(uris[i].path), index |-> i - 1]]

FolderSeqs ==
    { FoldersOf(us) : us \in UNION { [1..n -> FolderUris] : n \in 0..MaxFolders } }

CasePolicies == {"caseSensitive", "ignoreCase"}

Configurations == { Null, URI("file", "", <<"/", "ws", "/", "w.code-workspace">>) }

\* the workspaces the constructor is called for: an untitled, transient one
\* and a saved one, over every folder sequence and case policy
Workspaces ==
    { Workspace_new(a[1], fs, a[2], a[3], pol) :
        a \in { <<"w1", TRUE, Null>>,
                <<"w2", FALSE, URI("file", "", <<"/", "ws", "/", "w.code-workspace">>)>> },
        fs \in FolderSeqs, pol \in CasePolicies }

NoLookup == [resource |-> Null, result |-> Null, called |-> FALSE]

Assign(self) ==
    /\ _id' = self._id
    /\ _folders' = self._folders
    /\ _transient' = self._transient
    /\ _configuration' = self._configuration
    /\ _ignorePathCasing' = self._ignorePathCasing
    /\ _foldersMap' = self._foldersMap

WorkspaceInit ==
    /\ \E w \in Workspaces : /\ _id = w._id
                             /\ _folders = w._folders
                             /\ _transient = w._transient
                             /\ _configuration = w._configuration
                             /\ _ignorePathCasing = w._ignorePathCasing
                             /\ _foldersMap = w._foldersMap
    /\ mutation = "constructor"
    /\ lookup = NoLookup

SetFolders ==
    \E fs \in FolderSeqs :
        /\ Assign(Workspace_setFolders(Self, fs))
        /\ mutation' = "folders"
        /\ lookup' = NoLookup
        /\ UNCHANGED notWorkspaceVars

Update ==
    \E other \in Workspaces :
        /\ Assign(Workspace_update(Self, other))
        /\ mutation' = "update"
        /\ lookup' = NoLookup
        /\ UNCHANGED notWorkspaceVars

SetConfiguration ==
    \E cfg \in Configurations :
        /\ Assign(Workspace_setConfiguration(Self, cfg))
        /\ mutation' = "configuration"
        /\ lookup' = NoLookup
        /\ UNCHANGED notWorkspaceVars

GetFolder ==
    \E r \in Resources :
        /\ lookup' = [resource |-> r, result |-> getFolder(_foldersMap, r), called |-> TRUE]
        /\ UNCHANGED <<_id, _folders, _transient, _configuration, _ignorePathCasing,
                       _foldersMap, mutation>>
        /\ UNCHANGED notWorkspaceVars

WorkspaceNext == SetFolders \/ Update \/ SetConfiguration \/ GetFolder


-----------------------------------------------------------------------------
(* The inputs of the recently-opened store *)

\* the text of well-formed uris, and of uris URI.parse throws on
GoodUri1 == <<"file", ":", "//", "/", "a">>
GoodUri2 == <<"vscode-remote", ":", "//", "host", "/", "b">>
BadUri1 == <<"b@d", ":", "/", "a">>
BadUri2 == <<"file", ":", "//", "/", "/", "a">>

Label1 == JStr(<<"L1">>)
Label2 == JStr(<<"L2">>)

SerializedWorkspace(id, configPath) ==
    JObj([id |-> JStr(<<id>>), configPath |-> JStr(configPath)])

\* entries of the current schema: well-formed ones of the three kinds, ones
\* with a malformed uri, ones with two of the keys, ones with a key of the
\* wrong type, null, and an object with none of the keys
CurrentEntries ==
    { JObj([workspace |-> SerializedWorkspace("id1", GoodUri1), label |-> Label1]),
      JObj([workspace |-> SerializedWorkspace("id2", BadUri1)]),
      JObj([folderUri |-> JStr(GoodUri2), label |-> Label2, remoteAuthority |-> JStr(<<"host">>)]),
      JObj([folderUri |-> JStr(BadUri2)]),
      JObj([fileUri |-> JStr(GoodUri1)]),
      JObj([workspace |-> SerializedWorkspace("id1", GoodUri1), folderUri |-> JStr(GoodUri2)]),
      JObj([workspace |-> JStr(<<"x">>), folderUri |-> JStr(GoodUri2)]),
      JObj([workspace |-> SerializedWorkspace("id2", BadUri1), folderUri |-> JStr(GoodUri2)]),
      JObj([folderUri |-> JStr(GoodUri2), fileUri |-> JStr(GoodUri1)]),
      JObj([folderUri |-> JNum(5), fileUri |-> JStr(GoodUri1)]),
      Null,
      JObj(<<>>) }

SeqsUpTo(S, n) == UNION { [1..k -> S] : k \in 0..n }

LegacyWorkspaces ==
    { JObj([id |-> JStr(<<"id1">>), configURIPath |-> JStr(GoodUri1)]),
      JObj([id |-> JStr(<<"id2">>), configURIPath |-> JStr(BadUri1)]),
      JStr(GoodUri2),
      JStr(BadUri2),
      Null,
      JNum(5) }

LegacyFiles == { JStr(GoodUri1), JStr(BadUri1) }

LegacyData ==
    { JObj([workspaces3 |-> JArr(ws), files2 |-> JArr(fs)]) :
        ws \in SeqsUpTo(LegacyWorkspaces, MaxLegacy), fs \in SeqsUpTo(LegacyFiles, MaxLegacy) }
    \cup
    { JObj([workspaces3 |-> JArr(ws), workspaceLabels |-> wl,
            files2 |-> JArr(fs), fileLabels |-> JArr(<<Label1>>)]) :
        ws \in SeqsUpTo(LegacyWorkspaces, MaxLegacy), fs \in SeqsUpTo(LegacyFiles, MaxLegacy),
        wl \in { JArr(<<Label1>>), JArr(<<Null, Label2>>), JArr(<<JStr(<<>>), Label2>>) } }

\* what restoreRecentlyOpened is called with
StorageData ==
    { Undefined, JObj(<<>>), JObj([entries |-> Null]) }
    \cup { JObj([entries |-> JArr(es)]) : es \in SeqsUpTo(CurrentEntries, MaxEntries) }
    \cup LegacyData

Uri1 == URI("file", "", <<"/", "a">>)
Uri2 == URI("vscode-remote", "host", <<"/", "b">>)
Uri3 == URI("vscode-remote", "", <<"/", "c", "/", "w.code-workspace">>)

\* in-memory entries, with and without label and remoteAuthority
RecentWorkspacesAndFolders ==
    { [workspace |-> [id |-> <<"id1">>, configPath |-> Uri3], label |-> Label1],
      [workspace |-> [id |-> <<"id2">>, configPath |-> Uri1],
       remoteAuthority |-> JStr(<<"host">>)],
      [folderUri |-> Uri1],
      [folderUri |-> Uri2, label |-> Label2, remoteAuthority |-> JStr(<<"host">>)] }

RecentFiles ==
    { [fileUri |-> Uri1, label |-> Label1],
      [fileUri |-> Uri2] }

\* what toStoreData is called with
RecentlyOpened ==
    { [workspaces |-> ws, files |-> fs] :
        ws \in SeqsUpTo(RecentWorkspacesAndFolders, MaxRecents),
        fs \in SeqsUpTo(RecentFiles, MaxRecents) }

NoRecents == [workspaces |-> <<>>, files |-> <<>>]

-----------------------------------------------------------------------------
(* The recently-opened store as a state machine: persisted data is restored, *)
(* or an in-memory list is stored and what was stored is restored           *)

RecentsInit ==
    /\ restored = EmptyResult
    /\ \/ /\ pcRecents = "restore"
          /\ data \in StorageData
          /\ recents = NoRecents
       \/ /\ pcRecents = "store"
          /\ data = Undefined
          /\ recents \in RecentlyOpened

RecentsIdle ==
    /\ restored = EmptyResult
    /\ pcRecents = "idle"
    /\ data = Undefined
    /\ recents = NoRecents

ToStoreData ==
    /\ pcRecents = "store"
    /\ data' = toStoreData(recents)
    /\ pcRecents' = "stored"
    /\ UNCHANGED <<restored, recents>>
    /\ UNCHANGED notRecentsVars

RestoreRecentlyOpened ==
    /\ pcRecents \in {"restore", "stored"}
    /\ restored' = restoreRecentlyOpened(data)
    /\ pcRecents' = IF pcRecents = "stored" THEN "roundtrip" ELSE "restored"
    /\ UNCHANGED <<data, recents>>
    /\ UNCHANGED notRecentsVars

RecentsNext == ToStoreData \/ RestoreRecentlyOpened

WorkspaceIdle ==
    /\ \E w \in {Workspace_new("w1", <<>>, TRUE, Null, "caseSensitive")} : 
          /\ _id = w._id
          /\ _folders = w._folders
          /\ _transient = w._transient
          /\ _configuration = w._configuration
          /\ _ignorePathCasing = w._ignorePathCasing
          /\ _foldersMap = w._foldersMap
    /\ mutation = "constructor"
    /\ lookup = NoLookup

-----------------------------------------------------------------------------
(* getStoredWorkspaceFolder as a state machine: arguments are drawn, then   *)
(* the function is called                                                   *)

\* folder locations: local ones, one on a share, one on a drive (Windows),
\* remote ones of two authorities (one written in two cases), and a remote
\* one without a path
ResolverFolderUris ==
    { URI("file", "", <<"/", "ws">>),
      URI("file", "", <<"/", "ws", "/", "a", "/", "b">>),
      URI("file", "", <<"/", "other">>),
      URI("file", "", <<"/">>),
      URI("file", "host", <<"/", "share", "/", "x">>),
      URI("file", "", <<"/", "c:", "/", "ws", "/", "a">>),
      URI("vscode-remote", "host", <<"/", "ws">>),
      URI("vscode-remote", "host", <<"/", "ws", "/", "a">>),
      URI("vscode-remote", "HOST", <<"/", "x">>),
      URI("vscode-remote", "other", <<"/", "ws", "/", "a">>),
      URI("vscode-remote", "host", <<>>) }

\* directories a workspace file lives in
ResolverTargetUris ==
    { URI("file", "", <<"/", "ws">>),
      URI("file", "", <<"/", "c:", "/", "ws">>),
      URI("vscode-remote", "host", <<"/", "ws">>) }

HasDrive(uri) == \E i \in 1..Len(uri.path) : uri.path[i] \in DriveTokens

FolderNames == { Undefined, JStr(<<"N">>) }

ResolverInit ==
    /\ isWindows \in BOOLEAN
    /\ resolverArgs \in
         { [folderURI |-> f, forceAbsolute |-> fa, folderName |-> n,
            targetConfigFolderURI |-> t, useSlashForPath |-> sl] :
              f \in ResolverFolderUris, fa \in BOOLEAN, n \in FolderNames,
              t \in ResolverTargetUris, sl \in BOOLEAN }
    /\ HasDrive(resolverArgs.folderURI) \/ HasDrive(resolverArgs.targetConfigFolderURI)
         => isWindows
    /\ storedFolder = [name |-> Undefined, path |-> <<>>]
    /\ pcResolver = "call"

ResolverIdle ==
    /\ resolverArgs = [folderURI |-> NoUri, forceAbsolute |-> FALSE, folderName |-> Undefined,
                       targetConfigFolderURI |-> NoUri, useSlashForPath |-> FALSE]
    /\ storedFolder = [name |-> Undefined, path |-> <<>>]
    /\ pcResolver = "idle"

GetStoredWorkspaceFolder ==
    /\ pcResolver = "call"
    /\ storedFolder' = getStoredWorkspaceFolder(
                          resolverArgs.folderURI, resolverArgs.forceAbsolute,
                          resolverArgs.folderName, resolverArgs.targetConfigFolderURI,
                          resolverArgs.useSlashForPath, isWindows)
    /\ pcResolver' = "returned"
    /\ UNCHANGED resolverArgs
    /\ UNCHANGED notResolverVars

ResolverNext == GetStoredWorkspaceFolder

-----------------------------------------------------------------------------
(* rewriteWorkspaceFileForNewLocation as a state machine: a workspace file  *)
(* text and two locations are drawn, then the function is called.           *)
(* On Windows every file location is on drive c:, and a stored path with a  *)
(* backslash or a drive occurs only in a workspace file of the file scheme. *)

Root(win) == IF win THEN <<"/", "c:">> ELSE <<>>

FileUri(win, rest) == URI("file", "", Root(win) \o rest)

LocalWs(win) == FileUri(win, <<"/", "ws", "/", "w">>)
LocalSub(win) == FileUri(win, <<"/", "ws2", "/", "sub", "/", "w">>)
RemoteWs == URI("vscode-remote", "host", <<"/", "ws", "/", "w">>)
RemoteHome == URI("vscode-remote", "HOST", <<"/", "home", "/", "w">>)
RemoteOther == URI("vscode-remote", "other", <<"/", "ws", "/", "w">>)

\* <<old location, new location>> of the workspace file
Relocations(win) ==
    { <<LocalWs(win), LocalSub(win)>>,
      <<LocalWs(win), LocalWs(win)>>,
      <<LocalSub(win), LocalWs(win)>>,
      <<LocalWs(win), RemoteWs>>,
      <<RemoteWs, RemoteHome>>,
      <<RemoteWs, RemoteOther>>,
      <<RemoteWs, LocalWs(win)>> }

FolderName == JStr(<<"N">>)

\* elements of a folders array: relative and absolute paths, uris of the
\* file scheme and of two remote authorities, a remote uri without a path,
\* a uri that does not parse, and two values that are no stored folders
StoredEntries(win) ==
    { JObj([path |-> JStr(<<"a", "/", "b">>)]),
      JObj([path |-> JStr(<<".">>), name |-> FolderName]),
      JObj([path |-> JStr(<<"/", "other", "/", "x">>)]),
      JObj([uri |-> JStr(URI_toString(FileUri(win, <<"/", "other">>)))]),
      JObj([uri |-> JStr(<<"vscode-remote", ":", "//", "host", "/", "ws", "/", "a">>),
            name |-> FolderName]),
      JObj([uri |-> JStr(<<"vscode-remote", ":", "//", "other", "/", "x">>)]),
      JObj([uri |-> JStr(<<"vscode-remote", ":", "//", "host">>)]),
      JObj([uri |-> JStr(BadUri1)]),
      JObj([name |-> FolderName]),
      JNum(1) }

\* stored paths as Windows writes them
WindowsEntries ==
    { JObj([path |-> JStr(<<"a", "\\", "b">>)]),
      JObj([path |-> JStr(<<"c:", "\\", "x">>), name |-> FolderName]),
      JObj([path |-> JStr(<<"C:", "/", "x">>)]) }

EntriesFor(win, configPathURI) ==
    StoredEntries(win)
      \cup (IF win /\ configPathURI.scheme = "file" THEN WindowsEntries ELSE {})

\* what a workspace file has besides its folders
ExtraItems ==
    { Comment("c"),
      Property("transient", JBool(TRUE)),
      Property("settings", JObj([a |-> JNum(1)])),
      Property("remoteAuthority", JStr(<<"host">>)),
      Property("remoteAuthority", JStr(<<"HOST">>)),
      Property("remoteAuthority", JStr(<<"other">>)) }

SomeFolders ==
    <<JObj([path |-> JStr(<<"a", "/", "b">>)]),
      JObj([uri |-> JStr(<<"vscode-remote", ":", "//", "host", "/", "ws", "/", "a">>),
            name |-> FolderName])>>

IsRemoteAuthority(item) == IsProperty(item) /\ item.key = "remoteAuthority"

\* texts with something before and something after the folders
TextsWithExtras ==
    { ObjectText(<<before, Property("folders", JArr(SomeFolders)), after>>) :
        <<before, after>> \in
          { x \in ExtraItems \X ExtraItems :
              ~(IsRemoteAuthority(x[1]) /\ IsRemoteAuthority(x[2])) } }
    \cup { ObjectText(<<Property("folders", JArr(SomeFolders)), after>>) : after \in ExtraItems }

\* texts that are no workspace file
InvalidTexts ==
    { ValueText(Undefined), ValueText(Null), ValueText(JNum(1)), ValueText(JArr(<<>>)),
      ObjectText(<<>>),
      ObjectText(<<Property("settings", JObj([a |-> JNum(1)]))>>),
      ObjectText(<<Property("folders", JStr(<<"x">>))>>),
      ObjectText(<<Comment("c"), Property("folders", Null), Property("transient", JBool(TRUE))>>) }

TextsFor(win, configPathURI) ==
    { ObjectText(<<Property("folders", JArr(fs))>>) :
        fs \in SeqsUpTo(EntriesFor(win, configPathURI), MaxStoredFolders) }
    \cup TextsWithExtras \cup InvalidTexts

NoRewriteArgs ==
    [rawWorkspaceContents |-> ValueText(Undefined), configPathURI |-> NoUri,
     isFromUntitledWorkspace |-> FALSE, targetConfigPathURI |-> NoUri]

RewriteInit ==
    /\ isWindows \in BOOLEAN
    /\ \E r \in Relocations(isWindows) :
         rewriteArgs \in
           { [rawWorkspaceContents |-> text, configPathURI |-> r[1],
              isFromUntitledWorkspace |-> u, targetConfigPathURI |-> r[2]] :
                text \in TextsFor(isWindows, r[1]), u \in BOOLEAN }
    /\ rewritten = RewriteThrew
    /\ pcRewrite = "call"

RewriteIdle ==
    /\ rewriteArgs = NoRewriteArgs
    /\ rewritten = RewriteThrew
    /\ pcRewrite = "idle"

RewriteWorkspaceFileForNewLocation ==
    /\ pcRewrite = "call"
    /\ rewritten' = rewriteWorkspaceFileForNewLocation(
                       rewriteArgs.rawWorkspaceContents, rewriteArgs.configPathURI,
                       rewriteArgs.isFromUntitledWorkspace, rewriteArgs.targetConfigPathURI,
                       isWindows)
    /\ pcRewrite' = "returned"
    /\ UNCHANGED rewriteArgs
    /\ UNCHANGED notRewriteVars

RewriteNext == RewriteWorkspaceFileForNewLocation

-----------------------------------------------------------------------------
(* toWorkspaceFolders as a state machine: a list of stored folders, the     *)
(* workspace file and a case policy are drawn, then the function is called  *)

\* elements of a configured list: paths that differ in case only, an empty
\* path, uris that name the folder of the first path, a uri that does not
\* parse, a value that is no stored folder, and on Windows a path with a
\* backslash
ConfiguredEntries(win, workspaceConfigFile) ==
    { JObj([path |-> JStr(<<"a", "/", "b">>)]),
      JObj([path |-> JStr(<<"A", "/", "b">>), name |-> FolderName]),
      JObj([path |-> JStr(<<>>)]),
      JObj([uri |-> JStr(<<"vscode-remote", ":", "//", "host", "/", "ws", "/", "a", "/", "b">>)]),
      JObj([uri |-> JStr(URI_toString(FileUri(win, <<"/", "ws", "/", "a", "/", "b">>)))]),
      JObj([uri |-> JStr(BadUri1), name |-> FolderName]),
      JNum(1) }
    \cup (IF win /\ workspaceConfigFile.scheme = "file"
          THEN { JObj([path |-> JStr(<<"a", "\\", "b">>)]) }
          ELSE {})

NoFolders == [threw |-> FALSE, folders |-> <<>>]

FoldersInit ==
    /\ isWindows \in BOOLEAN
    /\ \E f \in {LocalWs(isWindows), RemoteWs} :
         foldersArgs \in
           { [configuredFolders |-> fs, workspaceConfigFile |-> f, policy |-> pol] :
               fs \in SeqsUpTo(ConfiguredEntries(isWindows, f), MaxConfiguredFolders),
               pol \in CasePolicies }
    /\ workspaceFolders = NoFolders
    /\ pcFolders = "call"

FoldersIdle ==
    /\ foldersArgs = [configuredFolders |-> <<>>, workspaceConfigFile |-> NoUri,
                      policy |-> "caseSensitive"]
    /\ workspaceFolders = NoFolders
    /\ pcFolders = "idle"

ToWorkspaceFolders ==
    /\ pcFolders = "call"
    /\ workspaceFolders' = toWorkspaceFolders(foldersArgs.configuredFolders,
                                              foldersArgs.workspaceConfigFile,
                                              foldersArgs.policy, isWindows)
    /\ pcFolders' = "returned"
    /\ UNCHANGED foldersArgs
    /\ UNCHANGED notFoldersVars

FoldersNext == ToWorkspaceFolders

-----------------------------------------------------------------------------
(* The specifications: one component runs, the others stay idle *)

InitWorkspace ==
    WorkspaceInit /\ RecentsIdle /\ isWindows = FALSE /\ ResolverIdle /\ RewriteIdle
    /\ FoldersIdle

SpecWorkspace == InitWorkspace /\ [][WorkspaceNext]_vars

InitRecents ==
    RecentsInit /\ WorkspaceIdle /\ isWindows = FALSE /\ ResolverIdle /\ RewriteIdle
    /\ FoldersIdle

SpecRecents == InitRecents /\ [][RecentsNext]_vars

InitResolver == ResolverInit /\ WorkspaceIdle /\ RecentsIdle /\ RewriteIdle /\ FoldersIdle

SpecResolver == InitResolver /\ [][ResolverNext]_vars

InitRewrite == RewriteInit /\ WorkspaceIdle /\ RecentsIdle /\ ResolverIdle /\ FoldersIdle

SpecRewrite == InitRewrite /\ [][RewriteNext]_vars

InitFolders == FoldersInit /\ WorkspaceIdle /\ RecentsIdle /\ ResolverIdle /\ RewriteIdle

SpecFolders == InitFolders /\ [][FoldersNext]_vars

-----------------------------------------------------------------------------
(* Claims about the Workspace *)

\* whether the folder at folderUri contains the resource under the case policy:
\* same scheme and authority, the folder's path an ancestor of or equal to it
Contains(policy, folderUri, resource) ==
    LET fs == PathSegments(folderUri.path)
        rs == PathSegments(resource.path)
    IN /\ Lower(folderUri.scheme) = Lower(resource.scheme)
       /\ Lower(folderUri.authority) = Lower(resource.authority)
       /\ Len(fs) <= Len(rs)
       /\ \A i \in 1..Len(fs) :
             IF policy = "ignoreCase" THEN Lower(fs[i]) = Lower(rs[i]) ELSE fs[i] = rs[i]

FolderSet == { _folders[i] : i \in 1..Len(_folders) }

\* C1: after construction and after any folders assignment, update(other) or
\* configuration assignment, the index is the one of the current folders under
\* the current case policy: every indexed folder is a current folder, every
\* current folder is indexed, getFolder returns only current folders that
\* contain the resource, and finds one whenever a current folder contains it.
C1_IndexIsCurrent ==
    /\ _foldersMap.policy = _ignorePathCasing
    /\ \A i \in 1..Len(_foldersMap.entries) : _foldersMap.entries[i].value \in FolderSet
    /\ \A f \in FolderSet :
          \E i \in 1..Len(_foldersMap.entries) :
             Contains(_ignorePathCasing, _foldersMap.entries[i].value.uri, f.uri)
             /\ Contains(_ignorePathCasing, f.uri, _foldersMap.entries[i].value.uri)
    /\ \A r \in Resources \ {Null} :
          LET g == getFolder(_foldersMap, r)
          IN /\ g # Null => g \in FolderSet /\ Contains(_ignorePathCasing, g.uri, r)
             /\ (\E f \in FolderSet : Contains(_ignorePathCasing, f.uri, r)) => g # Null
    /\ lookup.called => lookup.result = getFolder(_foldersMap, lookup.resource)

\* an update has replaced the folders, and a lookup that needs the ignore-case
\* policy (the resource's path differs in case from the folder's) has found one
C1_Witness ==
    /\ mutation = "update"
    /\ lookup.called
    /\ lookup.result # Null
    /\ _ignorePathCasing = "ignoreCase"
    /\ ~Contains("caseSensitive", lookup.result.uri, lookup.resource)

-----------------------------------------------------------------------------
(* Claims about the recently-opened store *)

\* the list restoreRecentlyOpened runs over under the given name: `entries'
\* when it is an array, else workspaces3 and files2 when they are
ListOf(d, list) ==
    CASE list = "entries" ->
            IF IsArray(Prop(d, "entries")) THEN Prop(d, "entries").a ELSE <<>>
      [] OTHER ->
            IF ~IsArray(Prop(d, "entries")) /\ IsArray(Prop(d, list))
            THEN Prop(d, list).a ELSE <<>>

HasKey(e, k) == e.t = "object" /\ k \in DOMAIN e.o

IsStringAt(e, k) == HasKey(e, k) /\ e.o[k].t = "string"

\* a `workspace' value of the shape {id: string, configPath: string}
WorkspaceShape(e) ==
    /\ HasKey(e, "workspace")
    /\ IsStringAt(e.o["workspace"], "id")
    /\ IsStringAt(e.o["workspace"], "configPath")

\* the uri text an element is to be restored from: [has, text, kind]
DecidingUri(list, e) ==
    CASE list = "entries" /\ WorkspaceShape(e) ->
            [has |-> TRUE, text |-> e.o["workspace"].o["configPath"].s, kind |-> "workspace"]
      [] list = "entries" /\ ~WorkspaceShape(e) /\ IsStringAt(e, "folderUri") ->
            [has |-> TRUE, text |-> e.o["folderUri"].s, kind |-> "folderUri"]
      [] list = "entries" /\ ~WorkspaceShape(e) /\ ~IsStringAt(e, "folderUri")
            /\ IsStringAt(e, "fileUri") ->
            [has |-> TRUE, text |-> e.o["fileUri"].s, kind |-> "fileUri"]
      [] list = "workspaces3" /\ IsStringAt(e, "id") /\ IsStringAt(e, "configURIPath") ->
            [has |-> TRUE, text |-> e.o["configURIPath"].s, kind |-> "workspace"]
      [] list = "workspaces3" /\ e.t = "string" ->
            [has |-> TRUE, text |-> e.s, kind |-> "folderUri"]
      [] list = "files2" /\ e.t = "string" ->
            [has |-> TRUE, text |-> e.s, kind |-> "fileUri"]
      [] OTHER -> [has |-> FALSE, text |-> <<>>, kind |-> "none"]

\* an element that can be interpreted: it is of a kind, and its uri parses
WellFormedEntry(list, e) ==
    DecidingUri(list, e).has /\ ~URI_parse(DecidingUri(list, e).text).threw

\* the uri of an in-memory entry
UriOf(recent) ==
    CASE "workspace" \in DOMAIN recent -> recent.workspace.configPath
      [] "folderUri" \in DOMAIN recent -> recent.folderUri
      [] "fileUri" \in DOMAIN recent -> recent.fileUri

KindOf(recent) ==
    CASE "workspace" \in DOMAIN recent -> "workspace"
      [] "folderUri" \in DOMAIN recent -> "folderUri"
      [] "fileUri" \in DOMAIN recent -> "fileUri"

Lists == {"entries", "workspaces3", "files2"}

\* (list, index) pairs in the order the lists are run over
Before(a, b) ==
    \/ a.list = b.list /\ a.index < b.index
    \/ a.list = "workspaces3" /\ b.list = "files2"

\* C2: restoreRecentlyOpened never raises; the elements restored are exactly
\* the well-formed ones, each once, into workspaces and files in their original
\* relative order, each with the uri its text parses to; every other element
\* (bad uri, wrong shape) is dropped alone.
C2_RestoreDropsOnlyBadEntries ==
    pcRecents = "restored" =>
        LET from == restored.workspacesFrom \o restored.filesFrom
            items == restored.workspaces \o restored.files
        IN  /\ ~restored.threw
            /\ Len(restored.workspaces) = Len(restored.workspacesFrom)
            /\ Len(restored.files) = Len(restored.filesFrom)
            /\ \A list \in Lists :
                 \A i \in 1..Len(ListOf(data, list)) :
                    Cardinality({k \in 1..Len(from) : from[k] = [list |-> list, index |-> i]})
                      = IF WellFormedEntry(list, ListOf(data, list)[i]) THEN 1 ELSE 0
            /\ \A k \in 1..Len(from) :
                 /\ from[k].list \in Lists
                 /\ from[k].index \in 1..Len(ListOf(data, from[k].list))
                 /\ UriOf(items[k]) =
                      URI_parse(DecidingUri(from[k].list,
                                            ListOf(data, from[k].list)[from[k].index]).text).uri
            /\ \A k, l \in 1..Len(restored.workspacesFrom) :
                 k < l => Before(restored.workspacesFrom[k], restored.workspacesFrom[l])
            /\ \A k, l \in 1..Len(restored.filesFrom) :
                 k < l => Before(restored.filesFrom[k], restored.filesFrom[l])

\* three entries, the second with a malformed configPath: entries 1 and 3 are
\* restored and one warning is logged
C2_Witness ==
    /\ pcRecents = "restored"
    /\ Len(ListOf(data, "entries")) = 3
    /\ WellFormedEntry("entries", ListOf(data, "entries")[1])
    /\ WorkspaceShape(ListOf(data, "entries")[2])
    /\ ~WellFormedEntry("entries", ListOf(data, "entries")[2])
    /\ WellFormedEntry("entries", ListOf(data, "entries")[3])
    /\ restored.workspacesFrom \o restored.filesFrom
         \in { <<[list |-> "entries", index |-> 1], [list |-> "entries", index |-> 3]>>,
               <<[list |-> "entries", index |-> 3], [list |-> "entries", index |-> 1]>> }
    /\ restored.warned = <<[list |-> "entries", index |-> 2]>>

\* C3 as claimed: classification by key presence -- an entry of the current
\* schema that has a `workspace' key is never restored as a folder or a file,
\* and one that has a `folderUri' key is never restored as a file.
C3_ByKeyPresence ==
    pcRecents = "restored" =>
        /\ \A k \in 1..Len(restored.workspacesFrom) :
             LET e == ListOf(data, "entries")[restored.workspacesFrom[k].index]
             IN restored.workspacesFrom[k].list = "entries" /\ HasKey(e, "workspace")
                  => KindOf(restored.workspaces[k]) = "workspace"
        /\ \A k \in 1..Len(restored.filesFrom) :
             LET e == ListOf(data, "entries")[restored.filesFrom[k].index]
             IN restored.filesFrom[k].list = "entries"
                  => ~HasKey(e, "workspace") /\ ~HasKey(e, "folderUri")

\* C3 as amended: classification by the first shape test passed -- an entry
\* whose `workspace' is an {id: string, configPath: string} object is never
\* restored as a folder or a file, and an entry whose `folderUri' is a string
\* is never restored as a file; an entry restored as a folder has a string
\* folderUri, one restored as a file a string fileUri.
C3_ByShapeInPriorityOrder ==
    pcRecents = "restored" =>
        /\ \A k \in 1..Len(restored.workspacesFrom) :
             LET e == ListOf(data, "entries")[restored.workspacesFrom[k].index]
             IN restored.workspacesFrom[k].list = "entries" =>
                  /\ WorkspaceShape(e) <=> KindOf(restored.workspaces[k]) = "workspace"
                  /\ KindOf(restored.workspaces[k]) = "folderUri" => IsStringAt(e, "folderUri")
        /\ \A k \in 1..Len(restored.filesFrom) :
             LET e == ListOf(data, "entries")[restored.filesFrom[k].index]
             IN restored.filesFrom[k].list = "entries" =>
                  /\ ~WorkspaceShape(e)
                  /\ ~IsStringAt(e, "folderUri")
                  /\ IsStringAt(e, "fileUri")
                  /\ KindOf(restored.files[k]) = "fileUri"

\* an entry with a well-formed workspace and a folderUri has been restored as a
\* workspace, and an entry with a string folderUri and a fileUri as a folder
C3_Witness ==
    /\ pcRecents = "restored"
    /\ \E k, l \in 1..Len(restored.workspacesFrom) :
         LET e == ListOf(data, "entries")[restored.workspacesFrom[k].index]
             f == ListOf(data, "entries")[restored.workspacesFrom[l].index]
         IN /\ restored.workspacesFrom[k].list = "entries"
            /\ WorkspaceShape(e) /\ IsStringAt(e, "folderUri")
            /\ KindOf(restored.workspaces[k]) = "workspace"
            /\ IsStringAt(f, "folderUri") /\ IsStringAt(f, "fileUri")
            /\ KindOf(restored.workspaces[l]) = "folderUri"

\* two in-memory entries are the same entry: the same kind, uri and workspace
\* id, the same label and remoteAuthority (absent being undefined)
SameRecent(a, b) ==
    /\ KindOf(a) = KindOf(b)
    /\ UriOf(a) = UriOf(b)
    /\ KindOf(a) = "workspace" => a.workspace.id = b.workspace.id
    /\ Prop(JObj(a), "label") = Prop(JObj(b), "label")
    /\ Prop(JObj(a), "remoteAuthority") = Prop(JObj(b), "remoteAuthority")

-----------------------------------------------------------------------------
(* Claims about getStoredWorkspaceFolder *)

Returned == pcResolver = "returned"

IsUriForm(stored) == "uri" \in DOMAIN stored

IsPathForm(stored) == "path" \in DOMAIN stored

SchemeDiffers == resolverArgs.folderURI.scheme # resolverArgs.targetConfigFolderURI.scheme

AuthorityMatches ==
    isEqualAuthority(resolverArgs.folderURI.authority,
                     resolverArgs.targetConfigFolderURI.authority)

AbsoluteBranch ==
    \/ resolverArgs.forceAbsolute
    \/ ~relativePath(resolverArgs.targetConfigFolderURI, resolverArgs.folderURI).defined

C10_PathNeverEmpty ==
    Returned =>
        /\ IsPathForm(storedFolder) => storedFolder.path # <<>>
        /\ ( /\ ~resolverArgs.forceAbsolute
             /\ resolverArgs.folderURI = resolverArgs.targetConfigFolderURI )
           => storedFolder = [name |-> resolverArgs.folderName, path |-> <<".">>]

HasToken(path, t) == \E i \in 1..Len(path) : path[i] = t

\* a call on Windows, without forward slashes, that takes the relative branch
RelativeOnWindows ==
    /\ Returned
    /\ isWindows
    /\ ~resolverArgs.useSlashForPath
    /\ ~SchemeDiffers
    /\ ~resolverArgs.forceAbsolute
    /\ relativePath(resolverArgs.targetConfigFolderURI, resolverArgs.folderURI).defined

\* C11 as stated: on Windows with forward slashes disabled every relative
\* path has each "/" replaced by "\", for every folder whose scheme equals
\* the target directory's.
C11_BackslashForEveryScheme ==
    RelativeOnWindows =>
        /\ IsPathForm(storedFolder)
        /\ ~HasToken(storedFolder.path, "/")

\* C11: on Windows with forward slashes disabled a relative path of a folder
\* of the file scheme has each "/" replaced by "\"; a relative path of a
\* folder of another scheme keeps its "/" and has no "\".
C11_BackslashForFileScheme ==
    RelativeOnWindows =>
        LET rel == relativePath(resolverArgs.targetConfigFolderURI, resolverArgs.folderURI).value
        IN /\ IsPathForm(storedFolder)
           /\ Len(storedFolder.path) = IF rel = <<>> THEN 1 ELSE Len(rel)
           /\ IF resolverArgs.folderURI.scheme = "file"
              THEN /\ ~HasToken(storedFolder.path, "/")
                   /\ \A i \in 1..Len(rel) :
                        storedFolder.path[i] = IF rel[i] = "/" THEN "\\" ELSE rel[i]
              ELSE /\ ~HasToken(storedFolder.path, "\\")
                   /\ rel # <<>> => storedFolder.path = rel

\* a folder two levels below the target directory, stored with a backslash
C11_Witness ==
    /\ RelativeOnWindows
    /\ resolverArgs.folderURI.scheme = "file"
    /\ HasToken(relativePath(resolverArgs.targetConfigFolderURI, resolverArgs.folderURI).value, "/")
    /\ HasToken(storedFolder.path, "\\")

-----------------------------------------------------------------------------
(* Claims about rewriteWorkspaceFileForNewLocation *)

Called == pcRewrite = "returned"

Succeeded == Called /\ ~rewritten.threw

InputValue == json_parse(rewriteArgs.rawWorkspaceContents)

HasFoldersArray == Truthy(InputValue) /\ IsArray(Prop(InputValue, "folders"))

\* the entries of the input that are stored folders, in order
InputFolders == SelectSeq(Prop(InputValue, "folders").a, isStoredWorkspaceFolder)

\* the folders array of the output
OutputFolders == Prop(json_parse(rewritten.content), "folders").a

OutIsPath(o) == o.t = "object" /\ "path" \in DOMAIN o.o /\ "uri" \notin DOMAIN o.o

OutIsUri(o) == o.t = "object" /\ "uri" \in DOMAIN o.o /\ "path" \notin DOMAIN o.o

OutIsAbsolutePath(o) == OutIsPath(o) /\ isAbsolute(o.o.path.s, isWindows)

OutIsRelativePath(o) == OutIsPath(o) /\ ~isAbsolute(o.o.path.s, isWindows)

StoredAsPath(e) == isRawFileWorkspaceFolder(e)

StoredAsAbsolutePath(e) == StoredAsPath(e) /\ isAbsolute(Prop(e, "path").s, isWindows)

StoredAsRelativePath(e) == StoredAsPath(e) /\ ~isAbsolute(Prop(e, "path").s, isWindows)

\* scheme and authority of the place an entry names: those of the old
\* location for a path, those of the uri for a uri
PlaceOf(e) ==
    IF StoredAsPath(e)
    THEN [scheme |-> rewriteArgs.configPathURI.scheme,
          authority |-> rewriteArgs.configPathURI.authority]
    ELSE [scheme |-> URI_parse(Prop(e, "uri").s).uri.scheme,
          authority |-> URI_parse(Prop(e, "uri").s).uri.authority]

SameSchemeAsTarget(e) == PlaceOf(e).scheme = rewriteArgs.targetConfigPathURI.scheme

SameAuthorityAsTarget(e) ==
    Lower(PlaceOf(e).authority) = Lower(rewriteArgs.targetConfigPathURI.authority)

\* a relative path from the new location to the entry's place exists
RelativeExpressible(e) == SameSchemeAsTarget(e) /\ SameAuthorityAsTarget(e)

C6_InvalidTextThrows ==
    Called =>
        /\ ~HasFoldersArray => rewritten.threw
        /\ rewritten.threw => rewritten.content = NoContent

\* an object that has properties but no folders array
C6_Witness ==
    /\ Called
    /\ InputValue.t = "object"
    /\ DOMAIN InputValue.o # {}
    /\ ~HasFoldersArray
    /\ rewritten = RewriteThrew

IsRewrittenProperty(item) ==
    IsProperty(item) /\ item.key \in {"folders", "remoteAuthority"}

NotRewrittenProperty(item) == ~IsRewrittenProperty(item)

\* C7: a successful rewrite leaves everything of the text but the folders and
\* remoteAuthority properties as it was, in value and in order, and a
\* remoteAuthority that stays has its value.
C7_OnlyFoldersChange ==
    Succeeded =>
        /\ rewritten.content.root = "object"
        /\ SelectSeq(rewritten.content.items, NotRewrittenProperty)
             = SelectSeq(rewriteArgs.rawWorkspaceContents.items, NotRewrittenProperty)
        /\ \A k \in KeysOf(rewriteArgs.rawWorkspaceContents.items) \ {"folders", "remoteAuthority"} :
              /\ k \in KeysOf(rewritten.content.items)
              /\ Prop(json_parse(rewritten.content), k) = Prop(InputValue, k)
        /\ "remoteAuthority" \in KeysOf(rewritten.content.items) =>
              Prop(json_parse(rewritten.content), "remoteAuthority")
                 = Prop(InputValue, "remoteAuthority")

\* a text with settings whose folders came out changed
C7_Witness ==
    /\ Succeeded
    /\ "settings" \in KeysOf(rewriteArgs.rawWorkspaceContents.items)
    /\ Prop(json_parse(rewritten.content), "folders") # Prop(InputValue, "folders")
    /\ Prop(json_parse(rewritten.content), "settings") = JObj([a |-> JNum(1)])

\* the authority a location implies, and whether a stored one equals it
\* (authorities compare ignoring case)
ImpliedAuthority ==
    IF rewriteArgs.targetConfigPathURI.scheme = "vscode-remote"
    THEN <<rewriteArgs.targetConfigPathURI.authority>>
    ELSE <<>>

StoredEqualsImplied ==
    /\ rewriteArgs.targetConfigPathURI.scheme = "vscode-remote"
    /\ Prop(InputValue, "remoteAuthority").t = "string"
    /\ LowerAll(Prop(InputValue, "remoteAuthority").s) = LowerAll(ImpliedAuthority)

\* C8: a remoteAuthority property of the input is absent from the output
\* exactly when its value equals the authority the new location implies;
\* otherwise it is in the output with its value, and the output has none
\* when the input has none.
C8_RemovedWhenRedundant ==
    Succeeded =>
        LET had == "remoteAuthority" \in KeysOf(rewriteArgs.rawWorkspaceContents.items)
            has == "remoteAuthority" \in KeysOf(rewritten.content.items)
        IN /\ had => (~has <=> StoredEqualsImplied)
           /\ has => /\ had
                     /\ Prop(json_parse(rewritten.content), "remoteAuthority")
                          = Prop(InputValue, "remoteAuthority")

\* a stored authority that was removed, and differs in case from the implied one
C8_Witness ==
    /\ Succeeded
    /\ Prop(InputValue, "remoteAuthority") = JStr(<<"host">>)
    /\ ImpliedAuthority = <<"HOST">>
    /\ "remoteAuthority" \notin KeysOf(rewritten.content.items)

-----------------------------------------------------------------------------
(* Claims about toWorkspaceFolders *)

FoldersReturned == pcFolders = "returned"

Configured == foldersArgs.configuredFolders

\* the location the i-th configured folder names, undefined when it names none
LocationOf(i) ==
    LET c == Configured[i]
        relativeTo == dirname(foldersArgs.workspaceConfigFile)
    IN IF isRawFileWorkspaceFolder(c)
       THEN IF Prop(c, "path").s = <<>> THEN Undefined
            ELSE resolvePath(relativeTo, Prop(c, "path").s, isWindows)
       ELSE IF isRawUriWorkspaceFolder(c) /\ ~URI_parse(Prop(c, "uri").s).threw
       THEN LET u == URI_parse(Prop(c, "uri").s).uri
            IN IF u.path = <<>> \/ Head(u.path) # "/"
               THEN [u EXCEPT !.path = <<"/">> \o @] ELSE u
       ELSE Undefined

KeyOf(uri) == getComparisonKey(foldersArgs.policy, uri)

\* the positions of the configured folders that are the first of their key
Firsts ==
    { i \in 1..Len(Configured) :
        /\ LocationOf(i) # Undefined
        /\ \A j \in 1..(i - 1) :
              LocationOf(j) = Undefined \/ KeyOf(LocationOf(j)) # KeyOf(LocationOf(i)) }

\* the k-th of them
NthFirst(k) == CHOOSE i \in Firsts : Cardinality({ j \in Firsts : j < i }) = k - 1

\* C12: the result of toWorkspaceFolders has pairwise distinct comparison
\* keys, consists of the first configured folder of each key in the order
\* configured, and its i-th folder has index i (from 0, without a gap).
C12_DistinctFirstContiguous ==
    FoldersReturned =>
        LET r == workspaceFolders.folders
        IN /\ \A i, j \in 1..Len(r) : i # j => KeyOf(r[i].uri) # KeyOf(r[j].uri)
           /\ \A i \in 1..Len(r) : r[i].index = i - 1
           /\ Len(r) = Cardinality(Firsts)
           /\ \A k \in 1..Len(r) :
                 /\ r[k].raw = Configured[NthFirst(k)]
                 /\ r[k].uri = LocationOf(NthFirst(k))

\* three configured folders of which the second repeats the key of the
\* first, so that the third gets index 1
C12_Witness ==
    /\ FoldersReturned
    /\ Len(Configured) = 3
    /\ Len(workspaceFolders.folders) = 2
    /\ workspaceFolders.folders[2].raw = Configured[3]
    /\ workspaceFolders.folders[2].index = 1
    /\ LocationOf(2) # Undefined

IsMalformed(c) ==
    /\ ~isRawFileWorkspaceFolder(c)
    /\ isRawUriWorkspaceFolder(c)
    /\ URI_parse(Prop(c, "uri").s).threw

\* C13: toWorkspaceFolders does not throw; a stored folder with a malformed
\* uri is not in the result, and the location of every other stored folder
\* that names one is.
C13_MalformedUriSkipped ==
    FoldersReturned =>
        LET r == workspaceFolders.folders
        IN /\ ~workspaceFolders.threw
           /\ \A i \in 1..Len(Configured) :
                 IF IsMalformed(Configured[i])
                 THEN \A k \in 1..Len(r) : r[k].raw # Configured[i]
                 ELSE LocationOf(i) # Undefined =>
                        \E k \in 1..Len(r) : KeyOf(r[k].uri) = KeyOf(LocationOf(i))

\* a malformed uri between two folders that are both returned
C13_Witness ==
    /\ FoldersReturned
    /\ Len(Configured) = 3
    /\ IsMalformed(Configured[2])
    /\ Len(workspaceFolders.folders) = 2
    /\ workspaceFolders.folders[2].raw = Configured[3]

-----------------------------------------------------------------------------
(* Further claims about rewriteWorkspaceFileForNewLocation *)

NotMalformed(c) == ~IsMalformed(c)

\* C14: a stored folder with a malformed uri does not make the rewrite fail:
\* the call returns a text whose folders are the rewritten other entries.
C14_MalformedEntryDropped ==
    ( /\ Called
      /\ HasFoldersArray
      /\ \E i \in 1..Len(InputFolders) : IsMalformed(InputFolders[i]) )
    => /\ ~rewritten.threw
       /\ Len(OutputFolders) = Len(SelectSeq(InputFolders, NotMalformed))

-----------------------------------------------------------------------------
(* Further claims about the Workspace *)

\* the current folders that contain the resource
Containing(resource) ==
    { f \in FolderSet : Contains(_ignorePathCasing, f.uri, resource) }

Depth(f) == Len(PathSegments(f.uri.path))

\* C15: getFolder(resource) returns none when the resource is absent or no
\* current folder contains it, and otherwise a current folder that contains
\* the resource and whose location is the longest among those that do.
C15_LongestContainingFolder ==
    lookup.called =>
        IF lookup.resource = Null \/ Containing(lookup.resource) = {}
        THEN lookup.result = Null
        ELSE /\ lookup.result \in Containing(lookup.resource)
             /\ \A f \in Containing(lookup.resource) : Depth(f) <= Depth(lookup.result)

\* nested folders: the resource is in two current folders, the inner is returned
C15_Witness ==
    /\ lookup.called
    /\ lookup.resource # Null
    /\ \E f \in Containing(lookup.resource) : Depth(f) < Depth(lookup.result)
    /\ lookup.result \in Containing(lookup.resource)

-----------------------------------------------------------------------------
(* Further claims about the recently-opened store *)

\* data of the legacy shape has been restored
LegacyRestored ==
    /\ pcRecents = "restored"
    /\ Truthy(data)
    /\ ~IsArray(Prop(data, "entries"))

LabelsOf(list) ==
    IF list = "workspaces3" THEN Prop(data, "workspaceLabels") ELSE Prop(data, "fileLabels")

\* what every restored item of the legacy shape is, but for its label: of the
\* kind of its element, with the element's id and the uri its text parses
\* to, and every well-formed element is restored once
LegacyKinds ==
    LET from == restored.workspacesFrom \o restored.filesFrom
        items == restored.workspaces \o restored.files
    IN /\ \A list \in {"workspaces3", "files2"} :
            \A i \in 1..Len(ListOf(data, list)) :
               WellFormedEntry(list, ListOf(data, list)[i]) =>
                  Cardinality({k \in 1..Len(from) : from[k] = [list |-> list, index |-> i]}) = 1
       /\ \A k \in 1..Len(from) :
            LET e == ListOf(data, from[k].list)[from[k].index]
            IN /\ from[k].list \in {"workspaces3", "files2"}
               /\ (k <= Len(restored.workspaces)) <=> (from[k].list = "workspaces3")
               /\ "remoteAuthority" \notin DOMAIN items[k]
               /\ IF from[k].list = "files2"
                  THEN e.t = "string" /\ items[k].fileUri = URI_parse(e.s).uri
                  ELSE IF e.t = "string"
                  THEN items[k].folderUri = URI_parse(e.s).uri
                  ELSE /\ e.t = "object"
                       /\ items[k].workspace =
                            [id |-> e.o.id.s, configPath |-> URI_parse(e.o.configURIPath.s).uri]

\* C16 as stated: each legacy element becomes an entry of its kind, and its
\* label is the element at the same index of the labels array when that
\* index is in range and the element is not null, otherwise absent.
C16_LabelUnlessNull ==
    LegacyRestored =>
        LET from == restored.workspacesFrom \o restored.filesFrom
            items == restored.workspaces \o restored.files
        IN /\ LegacyKinds
           /\ \A k \in 1..Len(from) :
                LET labels == LabelsOf(from[k].list)
                    i == from[k].index
                IN items[k].label =
                     IF IsArray(labels) /\ i <= Len(labels.a) /\ labels.a[i] # Null
                     THEN labels.a[i] ELSE Undefined

\* C16: each legacy element becomes an entry of its kind, and its label is the
\* element at the same index of the labels array when that index is in range
\* and the element is truthy (neither null nor the empty string), otherwise
\* absent; the index is the element's own, whatever was dropped before it.
C16_LabelWhenTruthy ==
    LegacyRestored =>
        LET from == restored.workspacesFrom \o restored.filesFrom
            items == restored.workspaces \o restored.files
        IN /\ LegacyKinds
           /\ \A k \in 1..Len(from) :
                LET labels == LabelsOf(from[k].list)
                    i == from[k].index
                IN items[k].label =
                     IF IsArray(labels) /\ i <= Len(labels.a)
                        /\ labels.a[i] # Null /\ labels.a[i] # JStr(<<>>)
                     THEN labels.a[i] ELSE Undefined

\* the first element of workspaces3 is dropped, the second is restored as
\* the first entry and has the second label
C16_Witness ==
    /\ LegacyRestored
    /\ restored.workspacesFrom # <<>>
    /\ restored.workspacesFrom[1] = [list |-> "workspaces3", index |-> 2]
    /\ restored.workspaces[1].label = Label2
    /\ "folderUri" \in DOMAIN restored.workspaces[1]

-----------------------------------------------------------------------------
(* Relocation and resolution together *)

\* the location toWorkspaceFolders resolves a stored folder to, next to the
\* workspace file at the given place
ResolvedAt(stored, workspaceConfigFile) ==
    configuredUri(stored, dirname(workspaceConfigFile), isWindows).uri

\* the same location: both resolve, to uris that differ at most in the case
\* of the authority and of the drive letter
SameLocation(u1, u2) ==
    /\ u1 # Undefined
    /\ u2 # Undefined
    /\ getComparisonKey("caseSensitive", u1) = getComparisonKey("caseSensitive", u2)

\* C17: after a successful rewrite the folders of the output are those of the
\* input that are stored folders, one for one in order, each with the name
\* it had, and each resolves next to the new workspace file to the location
\* the original resolves to next to the old one.
C17_LocationsPreserved ==
    Succeeded =>
        /\ Len(OutputFolders) = Len(InputFolders)
        /\ \A i \in 1..Len(InputFolders) :
              /\ Prop(OutputFolders[i], "name") = Prop(InputFolders[i], "name")
              /\ SameLocation(ResolvedAt(OutputFolders[i], rewriteArgs.targetConfigPathURI),
                              ResolvedAt(InputFolders[i], rewriteArgs.configPathURI))

====
